---- MODULE Spec2Model ----
(***************************************************************************)
(* Model of the managedcluster-import-controller convergence core:         *)
(*   - ReconcileClusterDeployment.Reconcile and its two helpers            *)
(*     setCreatedViaAnnotation / removeImportFinalizer                     *)
(*     (src/unnamed/part_000)                                              *)
(*   - the watches, map function and predicates wired by                   *)
(*     hosted.Add (src/pkg/controller/hosted/manager.go)                   *)
(* One cluster identity is modelled; Reconcile is split at every call to   *)
(* the object store or the target cluster, so that external actors can     *)
(* interleave with a running reconcile.                                    *)
(***************************************************************************)
EXTENDS Integers, Sequences, FiniteSets, TLC

\* ------------------------------------------------------------------ bounds
MaxWorks == 3
MaxExternal == 2
MaxNameLen == 4

\* --------------------------------------------------------------- constants
\* pkg/constants is not part of the sources at hand; the values are tokens.
ImportFinalizer == "legacy-import"
OtherFinalizer == "other-x"
CreatedViaDiscovery == "discovery"
CreatedViaAI == "assisted-installer"
CreatedViaHive == "hive"
NoAnnotation == ""
Errors == {"E1", "E2"}
ErrStore == "store-unavailable"
ErrNotFound == "not-found"
ErrClient == "bad-kubeconfig"

VARIABLES
    cd,                \* the install record (hive ClusterDeployment) in the store
    mc,                \* the cluster record (ManagedCluster) in the store
    autoImportSecret,  \* TRUE iff the auto-import secret exists in namespace id
    hiveSecret,        \* admin kubeconfig secret: "absent", "valid" or "invalid"
    importSecret,      \* TRUE iff the secret <id>-import exists
    works,             \* number of works labelled as klusterlet works in namespace id
    storeUp,           \* FALSE while calls to the object store fail
    targetErr,         \* "" when the target cluster accepts the manifests, else the error
    pc,                \* position of the (single, serialized) Reconcile run
    clusterDeployment, \* Reconcile's copy of cd (line 55)
    managedCluster,    \* Reconcile's copy of mc (line 73)
    autoImportFound,   \* result of the lookup at line 101
    importSecretFound, \* result of the lookup at line 121
    manifestWorks,     \* len(manifestWorks) of line 131, -1 before the list
    err,               \* err of line 148: the error of the import, "" for nil
    importCondition,   \* the condition built at lines 140-155
    errs,              \* errs of line 147
    ret,               \* the value the last run returned
    did,               \* the calls the current (or last) run has made
    events,            \* recorder.Eventf calls of the current (or last) run
    event,             \* the last change notification delivered to the router
    routed,            \* what the router made of it: passed or not, and the request
    queue,             \* TRUE iff the key of the cluster is in the work queue
    suppressed,        \* kinds of creation events the router has filtered out
    externalLeft,      \* external changes still allowed
    dirty,             \* an external change happened during the current run
    prevQuiet,         \* the previous run completed with no external change since its start
    lastAttempt        \* the outcome of the most recent call of line 148, over all runs

storeVars == <<cd, mc, autoImportSecret, hiveSecret, importSecret, works, storeUp, targetErr>>
localVars == <<clusterDeployment, managedCluster, autoImportFound, importSecretFound,
               manifestWorks, err, importCondition, errs>>
vars == <<cd, mc, autoImportSecret, hiveSecret, importSecret, works, storeUp, targetErr,
          pc, clusterDeployment, managedCluster, autoImportFound, importSecretFound,
          manifestWorks, err, importCondition, errs, ret, did, events,
          event, routed, queue, suppressed, externalLeft, dirty, prevQuiet, lastAttempt>>

\* ------------------------------------------------------------ data shapes
NoCD == [exists |-> FALSE, deleting |-> FALSE, Finalizers |-> <<>>, Installed |-> FALSE,
         ClusterPoolRef |-> "none", AgentBareMetal |-> FALSE]
NoCondition == [Status |-> "", Reason |-> "", Message |-> <<>>]
\* others stands for every annotation, label and condition of the cluster record
\* that Reconcile does not name
NoMC == [exists |-> FALSE, via |-> NoAnnotation, cond |-> NoCondition, others |-> "r0"]
NoAttempt == [attempted |-> FALSE, err |-> ""]

FinalizerLists == {<<>>, <<ImportFinalizer>>, <<OtherFinalizer>>,
                   <<ImportFinalizer, OtherFinalizer>>}

\* lines 140-145
SucceededCondition == [Status |-> "True", Reason |-> "ManagedClusterImported",
                       Message |-> <<"Import succeeded">>]

\* lines 152-154: Sprintf("Unable to import %s: %s", clusterName, err.Error())
FailedConditionNoText(e) == [Status |-> "False", Reason |-> "ManagedClusterNotImported",
                             Message |-> <<"Unable to import", "id">>]
FailedCondition(e) == [Status |-> "False", Reason |-> "ManagedClusterNotImported",
                       Message |-> <<"Unable to import", "id", e>>]

\* ------------------------------------------------------------- the router
\* Strings are sequences of characters over a small alphabet.
Chars == {"c", "-", "h", "k", "m"}
Names == UNION {[1..n -> Chars] : n \in 1..MaxNameLen}
Namespaces == {<<"c">>, <<"c", "c">>}
Contents == {"d1", "d2"}
EventTypes == {"create", "update", "delete", "generic"}

\* constants.HostedKlusterletManifestworkSuffix, HostedManagedKubeconfigManifestworkSuffix
HostedKlusterletManifestworkSuffix == <<"h", "k">>
HostedManagedKubeconfigManifestworkSuffix == <<"h", "m">>

\* constants.KlusterletDeployModeHosted and the values the annotation may carry
KlusterletDeployModeHosted == "Hosted"
DeployModes == {"", "Hosted", "hosted", "HOSTED", "Default"}

\* strings.HasSuffix
HasSuffix(str, suffix) ==
    /\ Len(str) >= Len(suffix)
    /\ SubSeq(str, Len(str) - Len(suffix) + 1, Len(str)) = suffix

\* strings.TrimSuffix: str without the suffix if it ends with it, else str
TrimSuffix(str, suffix) ==
    IF HasSuffix(str, suffix) THEN SubSeq(str, 1, Len(str) - Len(suffix)) ELSE str

\* strings.ToLower on the values of the deploy-mode annotation
ToLower(v) ==
    CASE v \in {"Hosted", "hosted", "HOSTED"} -> "hosted"
      [] v = "Default" -> "default"
      [] OTHER -> v

\* strings.EqualFold
EqualFold(a, b) == ToLower(a) = ToLower(b)

\* lines 152-154
isHostedModeObject(object) == EqualFold(object.mode, KlusterletDeployModeHosted)

\* lines 59-64
Request(key) == [Namespace |-> key, Name |-> key]

\* lines 50-65: MapFunc of the hosted work source
HostedWorkMapFuncByName(o) == Request(o.name)
HostedWorkMapFunc(o) ==
    LET workName == o.name
        n0 == o.namespace
        n1 == IF HasSuffix(workName, HostedKlusterletManifestworkSuffix)
              THEN TrimSuffix(workName, <<"-">> \o HostedKlusterletManifestworkSuffix)
              ELSE n0
        n2 == IF HasSuffix(workName, HostedManagedKubeconfigManifestworkSuffix)
              THEN TrimSuffix(workName, <<"-">> \o HostedManagedKubeconfigManifestworkSuffix)
              ELSE n1
    IN Request(n2)

\* helpers.ManifestsEqual (line 82)
ManifestsEqual(new, old) == new = old

\* equality.Semantic.DeepEqual on the Data of two secrets (lines 118, 140)
DeepEqual(old, new) == old = new

\* lines 67-87: predicate of the hosted work source
HostedWorkPredicate(e) ==
    CASE e.type = "generic" -> FALSE
      [] e.type = "create" -> TRUE
      [] e.type = "delete" -> TRUE
      [] e.type = "update" ->
            IF \/ ~HasSuffix(e.name, HostedKlusterletManifestworkSuffix)
               \/ ~HasSuffix(e.name, HostedManagedKubeconfigManifestworkSuffix)
            THEN FALSE
            ELSE ~ManifestsEqual(e.new, e.old)

\* lines 95-100: predicate of the ManagedCluster watch; mode is the annotation of
\* e.Object, of e.ObjectNew for an update, oldMode the one of e.ObjectOld
ManagedClusterPredicateOld(e) ==
    IF e.type = "update" THEN isHostedModeObject([mode |-> e.oldMode])
    ELSE isHostedModeObject(e)
ManagedClusterPredicate(e) == isHostedModeObject(e)

\* line 94: handler.EnqueueRequestForObject of a cluster-scoped object
EnqueueRequestForObject(o) == [Namespace |-> <<>>, Name |-> o.name]

\* lines 107-123: predicate of the import secret source
ImportSecretPredicateAnyCreate(e) ==
    CASE e.type = "generic" -> FALSE
      [] e.type = "delete" -> FALSE
      [] e.type = "create" -> TRUE
      [] e.type = "update" -> e.old # e.new
ImportSecretPredicate(e) ==
    CASE e.type = "generic" -> FALSE
      [] e.type = "delete" -> FALSE
      [] e.type = "create" -> isHostedModeObject(e)
      [] e.type = "update" -> ~DeepEqual(e.old, e.new)

\* lines 132-144: predicate of the auto-import secret source
AutoImportSecretPredicateAnyUpdate(e) == e.type \in {"create", "update"}
AutoImportSecretPredicateHosted(e) ==
    CASE e.type = "generic" -> FALSE
      [] e.type = "delete" -> FALSE
      [] e.type = "create" -> isHostedModeObject(e)
      [] e.type = "update" -> e.old # e.new
AutoImportSecretPredicate(e) ==
    CASE e.type = "generic" -> FALSE
      [] e.type = "delete" -> FALSE
      [] e.type = "create" -> TRUE
      [] e.type = "update" -> ~DeepEqual(e.old, e.new)

\* source.ManagedClusterResourceEventHandler without MapFunc (lines 106, 131):
\* the key of a per-cluster secret is its namespace
NamespaceMapFunc(o) == Request(o.namespace)

\* The watches on the install record and on the admin credential secret are
\* wired outside the two source files; they follow the specification: the key
\* of an install record is its own name, the key of a credential secret is its
\* namespace, and their creations are always interesting.
InstallRecordPredicate(e) == TRUE
CredentialSecretPredicate(e) == e.type \in {"create", "delete"} \/ e.old # e.new

\* one Watch of Add: the predicate decides, then the handler maps
Route(e) ==
    CASE e.kind = "work" ->
            [delivered |-> TRUE, pass |-> HostedWorkPredicate(e),
             request |-> HostedWorkMapFunc(e)]
      [] e.kind = "cluster" ->
            [delivered |-> TRUE, pass |-> ManagedClusterPredicate(e),
             request |-> EnqueueRequestForObject(e)]
      [] e.kind = "importSecret" ->
            [delivered |-> TRUE, pass |-> ImportSecretPredicate(e),
             request |-> NamespaceMapFunc(e)]
      [] e.kind = "autoImportSecret" ->
            [delivered |-> TRUE, pass |-> AutoImportSecretPredicate(e),
             request |-> NamespaceMapFunc(e)]
      [] e.kind = "installRecord" ->
            [delivered |-> TRUE, pass |-> InstallRecordPredicate(e),
             request |-> Request(e.name)]
      [] e.kind = "credentialSecret" ->
            [delivered |-> TRUE, pass |-> CredentialSecretPredicate(e),
             request |-> NamespaceMapFunc(e)]

NoEvent == [kind |-> "none", type |-> "generic", name |-> <<>>, namespace |-> <<>>,
            mode |-> "", oldMode |-> "", old |-> "d1", new |-> "d1"]
NoRouted == [delivered |-> FALSE, pass |-> FALSE, request |-> Request(<<>>)]

\* the change notifications of one kind: an update carries the old and the new
\* content, every other notification one object
EventsOf(kind, names, namespaces, modes) ==
    {[kind |-> kind, type |-> t, name |-> n, namespace |-> ns, mode |-> m,
      oldMode |-> m, old |-> o, new |-> w] :
        t \in EventTypes, n \in names, ns \in namespaces, m \in modes,
        o \in Contents, w \in Contents}

WellFormed(e) == e.type # "update" => (e.old = e.new /\ e.oldMode = e.mode)

\* ---------------------------------------------------- decisions of the code
\* lines 198-205: the loop over clusterDeployment.Finalizers
HasImportFinalizer(fs) == \E i \in 1..Len(fs) : fs[i] = ImportFinalizer

\* line 213: len(clusterDeployment.Finalizers) != 1
HasOtherFinalizersNever(fs) == FALSE
HasOtherFinalizers(fs) == Len(fs) # 1

\* line 83
NotInstalledNever(c) == FALSE
NotInstalled(c) == ~c.Installed

\* line 89: ClusterPoolRef != nil && ClaimedTimestamp.IsZero()
NotClaimedNoPool(c) == c.ClusterPoolRef = "none"
NotClaimed(c) == c.ClusterPoolRef = "unclaimed"

\* lines 175-179: the value merged into cluster.Annotations
DesiredVia(c) == IF c.AgentBareMetal THEN CreatedViaAI ELSE CreatedViaHive

\* lines 168-172
IsDiscoveryNever(m) == FALSE
IsDiscovery(m) == m.via = CreatedViaDiscovery

\* lines 174-183: resourcemerge.MergeMap sets *modified only when the value differs
AnnotationModifiedAlways(m, c) == TRUE
AnnotationModified(m, c) == m.via # DesiredVia(c)

\* line 135: len(manifestWorks) != 2
WorksNotReadyBelow(n) == n < 2
WorksNotReady(n) == n # 2

\* lines 219-221: client.MergeFrom(copy) then Finalizers = []string{}; the merge
\* patch carries the whole (now absent) list, whatever the store holds by now.
PatchedFinalizers(current) == <<>>

\* lines 166, 176-178, 189: the merge patch carries the one annotation key.
PatchedManagedClusterOverwrite(current, c) ==
    [exists |-> TRUE, via |-> DesiredVia(c), cond |-> current.cond, others |-> "r0"]
PatchedManagedCluster(current, c) == [current EXCEPT !.via = DesiredVia(c)]

\* helpers.ImportManagedClusterFromSecret (line 148): the error of applying the
\* payload to the target cluster, "" when it is accepted.
ImportManagedClusterFromSecret(target) == target

\* lines 140-155: the condition summarising the import
ConditionForIgnoringError(e) == SucceededCondition
ConditionFor(e) == IF e = "" THEN SucceededCondition ELSE FailedCondition(e)

\* lines 147-150
ErrsFor(e) == IF e = "" THEN <<>> ELSE <<e>>

\* line 161: utilerrors.NewAggregate(errs), nil (the empty list) when errs is empty
NewAggregateFirst(es) == IF Len(es) > 1 THEN <<es[1]>> ELSE es
NewAggregate(es) == es

\* lines 102-105: the auto-import secret was found, the run stops
SkipForAutoImportNever(found) == FALSE
SkipForAutoImport(found) == found

\* helpers.UpdateManagedClusterStatus (line 157): sets the condition on the record
UpdateManagedClusterStatus(current, c) == [current EXCEPT !.cond = c]

\* ------------------------------------------------------------------- Init
ReadyCD == [exists |-> TRUE, deleting |-> FALSE, Finalizers |-> <<ImportFinalizer>>,
            Installed |-> TRUE, ClusterPoolRef |-> "none", AgentBareMetal |-> FALSE]

\* no run has started, no notification has been delivered
InitController ==
    /\ pc = "idle"
    /\ clusterDeployment = NoCD
    /\ managedCluster = NoMC
    /\ autoImportFound = "unread"
    /\ importSecretFound = "unread"
    /\ manifestWorks = -1
    /\ err = ""
    /\ importCondition = NoCondition
    /\ errs = <<>>
    /\ ret = [done |-> FALSE, errs |-> <<>>]
    /\ did = {}
    /\ events = <<>>
    /\ event = NoEvent
    /\ routed = NoRouted
    /\ queue = FALSE
    /\ suppressed = {}
    /\ dirty = FALSE
    /\ prevQuiet = FALSE
    /\ lastAttempt = NoAttempt

\* the controller starts on a store in which each dependency may or may not exist yet
Init ==
    /\ cd \in {NoCD, ReadyCD, [ReadyCD EXCEPT !.AgentBareMetal = TRUE]}
    /\ mc \in {NoMC, [NoMC EXCEPT !.exists = TRUE]}
    /\ autoImportSecret = FALSE
    /\ hiveSecret \in {"absent", "valid"}
    /\ importSecret \in BOOLEAN
    /\ works \in {0, 2}
    /\ storeUp = TRUE
    /\ targetErr = ""
    /\ externalLeft = MaxExternal
    /\ InitController

\* ------------------------------------------------------------- Reconcile
\* return reconcile.Result{}, e
\* (a run takes its key off the work queue when it starts; the controller puts
\* the key back, rate limited, when the run returns an error)
Finish(e) ==
    /\ pc' = "idle"
    /\ ret' = [done |-> TRUE, errs |-> e]
    /\ queue' = ((pc # "idle" /\ queue) \/ e # <<>>)
    /\ prevQuiet' = ~dirty
    /\ dirty' = FALSE
    /\ UNCHANGED <<event, routed, suppressed, lastAttempt>>

Continue(p) ==
    /\ pc' = p
    /\ queue' = (pc # "idle" /\ queue)
    /\ UNCHANGED <<dirty, prevQuiet, event, routed, suppressed, lastAttempt>>

\* lines 50-71: a run starts and gets the install record
GetClusterDeployment ==
    /\ pc = "idle"
    /\ managedCluster' = NoMC
    /\ autoImportFound' = "unread"
    /\ importSecretFound' = "unread"
    /\ manifestWorks' = -1
    /\ err' = ""
    /\ importCondition' = NoCondition
    /\ errs' = <<>>
    /\ did' = {}
    /\ events' = <<>>
    /\ UNCHANGED <<storeVars, externalLeft>>
    /\ IF ~storeUp
       THEN clusterDeployment' = NoCD /\ Finish(<<ErrStore>>)
       ELSE IF ~cd.exists
       THEN clusterDeployment' = NoCD /\ Finish(<<>>)
       ELSE /\ clusterDeployment' = cd
            /\ ret' = [done |-> FALSE, errs |-> <<>>]
            /\ IF cd.deleting
               THEN Continue("removeImportFinalizer")
               ELSE Continue("getManagedCluster")

\* lines 197-228
RemoveImportFinalizer ==
    /\ pc = "removeImportFinalizer"
    /\ UNCHANGED <<mc, autoImportSecret, hiveSecret, importSecret, works, storeUp, targetErr,
                   localVars, externalLeft>>
    /\ IF ~HasImportFinalizer(clusterDeployment.Finalizers)
       THEN UNCHANGED <<cd, did, events>> /\ Finish(<<>>)
       ELSE IF HasOtherFinalizers(clusterDeployment.Finalizers)
       THEN UNCHANGED <<cd, did, events>> /\ Finish(<<>>)
       ELSE /\ did' = did \cup {"patchFinalizers"}
            /\ IF ~storeUp
               THEN UNCHANGED <<cd, events>> /\ Finish(<<ErrStore>>)
               ELSE IF ~cd.exists
               THEN UNCHANGED <<cd, events>> /\ Finish(<<ErrNotFound>>)
               ELSE /\ cd' = [cd EXCEPT !.Finalizers = PatchedFinalizers(cd.Finalizers)]
                    /\ events' = Append(events, "ClusterDeploymentFinalizerRemoved")
                    /\ Finish(<<>>)

\* lines 73-93 and the local part of setCreatedViaAnnotation, lines 164-183
GetManagedCluster ==
    /\ pc = "getManagedCluster"
    /\ UNCHANGED <<storeVars, clusterDeployment, autoImportFound, importSecretFound,
                   manifestWorks, err, importCondition, errs, did, events, externalLeft>>
    /\ IF ~storeUp
       THEN UNCHANGED managedCluster /\ Finish(<<ErrStore>>)
       ELSE IF ~mc.exists
       THEN UNCHANGED managedCluster /\ Finish(<<>>)
       ELSE /\ managedCluster' = mc
            /\ IF NotInstalled(clusterDeployment) \/ NotClaimed(clusterDeployment)
               THEN Finish(<<>>)
               ELSE /\ ret' = ret
                    /\ IF IsDiscovery(mc) \/ ~AnnotationModified(mc, clusterDeployment)
                       THEN Continue("getAutoImportSecret")
                       ELSE Continue("patchManagedCluster")

\* lines 185-194: r.client.Patch(ctx, cluster, patch) and the audit event
PatchManagedCluster ==
    /\ pc = "patchManagedCluster"
    /\ did' = did \cup {"patchAnnotation"}
    /\ UNCHANGED <<cd, autoImportSecret, hiveSecret, importSecret, works, storeUp, targetErr,
                   localVars, externalLeft>>
    /\ IF ~storeUp
       THEN UNCHANGED <<mc, events>> /\ Finish(<<ErrStore>>)
       ELSE IF ~mc.exists
       THEN UNCHANGED <<mc, events>> /\ Finish(<<ErrNotFound>>)
       ELSE /\ mc' = PatchedManagedCluster(mc, clusterDeployment)
            /\ events' = Append(events, "ManagedClusterLabelsUpdated")
            /\ ret' = ret
            /\ Continue("getAutoImportSecret")

\* lines 100-108
GetAutoImportSecret ==
    /\ pc = "getAutoImportSecret"
    /\ UNCHANGED <<storeVars, clusterDeployment, managedCluster, importSecretFound,
                   manifestWorks, err, importCondition, errs, did, events, externalLeft>>
    /\ IF ~storeUp
       THEN UNCHANGED autoImportFound /\ Finish(<<ErrStore>>)
       ELSE /\ autoImportFound' = IF autoImportSecret THEN "found" ELSE "notfound"
            /\ IF SkipForAutoImport(autoImportSecret)
               THEN Finish(<<>>)
               ELSE ret' = ret /\ Continue("getHiveSecret")

\* lines 110-118: the admin kubeconfig secret and the client for the target cluster
GetHiveSecret ==
    /\ pc = "getHiveSecret"
    /\ UNCHANGED <<storeVars, localVars, events, externalLeft>>
    /\ IF ~storeUp
       THEN did' = did \cup {"getCredential"} /\ Finish(<<ErrStore>>)
       ELSE IF hiveSecret = "absent"
       THEN did' = did \cup {"getCredential"} /\ Finish(<<ErrNotFound>>)
       ELSE /\ did' = did \cup {"getCredential", "newClient"}
            /\ IF hiveSecret = "invalid"
               THEN Finish(<<ErrClient>>)
               ELSE ret' = ret /\ Continue("getImportSecret")

\* lines 120-127
GetImportSecret ==
    /\ pc = "getImportSecret"
    /\ UNCHANGED <<storeVars, clusterDeployment, managedCluster, autoImportFound,
                   manifestWorks, err, importCondition, errs, did, events, externalLeft>>
    /\ IF ~storeUp
       THEN UNCHANGED importSecretFound /\ Finish(<<ErrStore>>)
       ELSE IF ~importSecret
       THEN importSecretFound' = "notfound" /\ Finish(<<>>)
       ELSE importSecretFound' = "found" /\ ret' = ret /\ Continue("listManifestWorks")

\* lines 129-138
ListManifestWorks ==
    /\ pc = "listManifestWorks"
    /\ UNCHANGED <<storeVars, clusterDeployment, managedCluster, autoImportFound,
                   importSecretFound, err, importCondition, errs, did, events, externalLeft>>
    /\ IF ~storeUp
       THEN UNCHANGED manifestWorks /\ Finish(<<ErrStore>>)
       ELSE /\ manifestWorks' = works
            /\ IF WorksNotReady(works)
               THEN Finish(<<>>)
               ELSE ret' = ret /\ Continue("import")

\* lines 140-155: apply the payload to the target cluster
Import ==
    /\ pc = "import"
    /\ did' = did \cup {"import"}
    /\ err' = ImportManagedClusterFromSecret(targetErr)
    /\ errs' = ErrsFor(err')
    /\ importCondition' = ConditionFor(err')
    /\ ret' = ret
    /\ pc' = "updateStatus"
    /\ lastAttempt' = [attempted |-> TRUE, err |-> err']
    /\ UNCHANGED <<queue, dirty, prevQuiet, event, routed, suppressed>>
    /\ UNCHANGED <<storeVars, clusterDeployment, managedCluster, autoImportFound,
                   importSecretFound, manifestWorks, events, externalLeft>>

\* lines 157-161: write the condition, return the aggregate of errs
UpdateStatus ==
    /\ pc = "updateStatus"
    /\ UNCHANGED <<cd, autoImportSecret, hiveSecret, importSecret, works, storeUp, targetErr,
                   clusterDeployment, managedCluster, autoImportFound, importSecretFound,
                   manifestWorks, err, importCondition, events, externalLeft>>
    /\ IF ~storeUp
       THEN /\ errs' = Append(errs, ErrStore)
            /\ did' = did \cup {"updateStatus"}
            /\ UNCHANGED mc
            /\ Finish(NewAggregate(errs'))
       ELSE IF ~mc.exists
       THEN /\ errs' = Append(errs, ErrNotFound)
            /\ did' = did \cup {"updateStatus"}
            /\ UNCHANGED mc
            /\ Finish(NewAggregate(errs'))
       ELSE /\ mc' = UpdateManagedClusterStatus(mc, importCondition)
            /\ did' = did \cup {"updateStatus", "statusWritten"}
            /\ errs' = errs
            /\ Finish(NewAggregate(errs'))

Reconcile ==
    \/ GetClusterDeployment
    \/ RemoveImportFinalizer
    \/ GetManagedCluster
    \/ PatchManagedCluster
    \/ GetAutoImportSecret
    \/ GetHiveSecret
    \/ GetImportSecret
    \/ ListManifestWorks
    \/ Import
    \/ UpdateStatus

\* ------------------------------------------------- the rest of the world
\* An external actor changes one thing in the store or in the target cluster.
External ==
    /\ externalLeft > 0
    /\ externalLeft' = externalLeft - 1
    /\ dirty' = (pc # "idle")
    /\ prevQuiet' = FALSE
    /\ UNCHANGED <<pc, localVars, ret, did, events, event, routed, queue, suppressed,
                   lastAttempt>>

CreateClusterDeployment ==
    /\ External
    /\ ~cd.exists
    /\ \E inst \in BOOLEAN, pool \in {"none", "unclaimed", "claimed"}, bm \in BOOLEAN :
         cd' = [exists |-> TRUE, deleting |-> FALSE, Finalizers |-> <<ImportFinalizer>>,
                Installed |-> inst, ClusterPoolRef |-> pool, AgentBareMetal |-> bm]
    /\ UNCHANGED <<mc, autoImportSecret, hiveSecret, importSecret, works, storeUp, targetErr>>

UpdateClusterDeployment ==
    /\ External
    /\ cd.exists
    /\ \/ cd' = [cd EXCEPT !.Installed = ~cd.Installed]
       \/ \E pool \in {"none", "unclaimed", "claimed"} :
            pool # cd.ClusterPoolRef /\ cd' = [cd EXCEPT !.ClusterPoolRef = pool]
       \/ ~cd.deleting /\ cd' = [cd EXCEPT !.deleting = TRUE]
       \/ \E fs \in FinalizerLists : fs # cd.Finalizers /\ cd' = [cd EXCEPT !.Finalizers = fs]
    /\ UNCHANGED <<mc, autoImportSecret, hiveSecret, importSecret, works, storeUp, targetErr>>

\* the store drops a deleting record once no finalizer is left
FinalizeClusterDeployment ==
    /\ External
    /\ cd.exists /\ cd.deleting /\ cd.Finalizers = <<>>
    /\ cd' = NoCD
    /\ UNCHANGED <<mc, autoImportSecret, hiveSecret, importSecret, works, storeUp, targetErr>>

CreateManagedCluster ==
    /\ External
    /\ ~mc.exists
    /\ \E v \in {NoAnnotation, CreatedViaDiscovery} :
         mc' = [NoMC EXCEPT !.exists = TRUE, !.via = v]
    /\ UNCHANGED <<cd, autoImportSecret, hiveSecret, importSecret, works, storeUp, targetErr>>

DeleteManagedCluster ==
    /\ External
    /\ mc.exists
    /\ mc' = NoMC
    /\ UNCHANGED <<cd, autoImportSecret, hiveSecret, importSecret, works, storeUp, targetErr>>

\* another subsystem (discovery) marks the cluster record as its own
AnnotateDiscovery ==
    /\ External
    /\ mc.exists /\ mc.via # CreatedViaDiscovery
    /\ mc' = [mc EXCEPT !.via = CreatedViaDiscovery]
    /\ UNCHANGED <<cd, autoImportSecret, hiveSecret, importSecret, works, storeUp, targetErr>>

\* another actor changes what Reconcile does not name on the cluster record, or
\* takes the provenance annotation off it
UpdateManagedCluster ==
    /\ External
    /\ mc.exists
    /\ \/ mc' = [mc EXCEPT !.others = IF mc.others = "r0" THEN "r1" ELSE "r0"]
       \/ mc.via # NoAnnotation /\ mc' = [mc EXCEPT !.via = NoAnnotation]
    /\ UNCHANGED <<cd, autoImportSecret, hiveSecret, importSecret, works, storeUp, targetErr>>

SetAutoImportSecret ==
    /\ External
    /\ autoImportSecret' = ~autoImportSecret
    /\ UNCHANGED <<cd, mc, hiveSecret, importSecret, works, storeUp, targetErr>>

SetHiveSecret ==
    /\ External
    /\ \E h \in {"absent", "valid", "invalid"} : h # hiveSecret /\ hiveSecret' = h
    /\ UNCHANGED <<cd, mc, autoImportSecret, importSecret, works, storeUp, targetErr>>

SetImportSecret ==
    /\ External
    /\ importSecret' = ~importSecret
    /\ UNCHANGED <<cd, mc, autoImportSecret, hiveSecret, works, storeUp, targetErr>>

CreateWork ==
    /\ External
    /\ works < MaxWorks
    /\ works' = works + 1
    /\ UNCHANGED <<cd, mc, autoImportSecret, hiveSecret, importSecret, storeUp, targetErr>>

DeleteWork ==
    /\ External
    /\ works > 0
    /\ works' = works - 1
    /\ UNCHANGED <<cd, mc, autoImportSecret, hiveSecret, importSecret, storeUp, targetErr>>

SetStoreUp ==
    /\ External
    /\ storeUp' = ~storeUp
    /\ UNCHANGED <<cd, mc, autoImportSecret, hiveSecret, importSecret, works, targetErr>>

SetTargetErr ==
    /\ External
    /\ \E e \in Errors \cup {""} : e # targetErr /\ targetErr' = e
    /\ UNCHANGED <<cd, mc, autoImportSecret, hiveSecret, importSecret, works, storeUp>>

Next ==
    \/ Reconcile
    \/ CreateClusterDeployment
    \/ UpdateClusterDeployment
    \/ FinalizeClusterDeployment
    \/ CreateManagedCluster
    \/ DeleteManagedCluster
    \/ AnnotateDiscovery
    \/ UpdateManagedCluster
    \/ SetAutoImportSecret
    \/ SetHiveSecret
    \/ SetImportSecret
    \/ CreateWork
    \/ DeleteWork
    \/ SetStoreUp
    \/ SetTargetErr

Spec == Init /\ [][Next]_vars

\* ------------------------------------------------ the router on its own
\* A change notification of one of the four watched kinds is pending; the
\* router applies the predicate and the handler of that kind's Watch to it.
WorkEvents == EventsOf("work", Names, Namespaces, {""})
\* an update of a cluster record may change the deploy-mode annotation
ManagedClusterEvents ==
    {[e EXCEPT !.oldMode = om] :
        e \in EventsOf("cluster", Namespaces, {<<>>}, DeployModes), om \in DeployModes}
ImportSecretEvents == EventsOf("importSecret", {<<"c", "-", "m">>}, Namespaces, DeployModes)
AutoImportSecretEvents ==
    EventsOf("autoImportSecret", {<<"c", "-", "k">>}, Namespaces, DeployModes)

InitRouter ==
    /\ cd = NoCD
    /\ mc = NoMC
    /\ autoImportSecret = FALSE
    /\ hiveSecret = "absent"
    /\ importSecret = FALSE
    /\ works = 0
    /\ storeUp = TRUE
    /\ targetErr = ""
    /\ externalLeft = 0
    /\ pc = "idle"
    /\ clusterDeployment = NoCD
    /\ managedCluster = NoMC
    /\ autoImportFound = "unread"
    /\ importSecretFound = "unread"
    /\ manifestWorks = -1
    /\ err = ""
    /\ importCondition = NoCondition
    /\ errs = <<>>
    /\ ret = [done |-> FALSE, errs |-> <<>>]
    /\ did = {}
    /\ events = <<>>
    /\ event \in {e \in WorkEvents \cup ManagedClusterEvents \cup ImportSecretEvents
                        \cup AutoImportSecretEvents : WellFormed(e)}
    /\ routed = NoRouted
    /\ queue = FALSE
    /\ suppressed = {}
    /\ dirty = FALSE
    /\ prevQuiet = FALSE
    /\ lastAttempt = NoAttempt

\* the Watch of the event's kind filters and maps it; a request that passed
\* is put into the work queue
Deliver ==
    /\ ~routed.delivered
    /\ routed' = Route(event)
    /\ queue' = routed'.pass
    /\ UNCHANGED <<storeVars, pc, localVars, ret, did, events, event, suppressed,
                   externalLeft, dirty, prevQuiet, lastAttempt>>

\* lines 47-90
WorkEvent == event.kind = "work" /\ Deliver

\* lines 92-102
ManagedClusterEvent == event.kind = "cluster" /\ Deliver

\* lines 104-126
ImportSecretEvent == event.kind = "importSecret" /\ Deliver

\* lines 128-147
AutoImportSecretEvent == event.kind = "autoImportSecret" /\ Deliver

NextRouter ==
    \/ WorkEvent
    \/ ManagedClusterEvent
    \/ ImportSecretEvent
    \/ AutoImportSecretEvent

SpecRouter == InitRouter /\ [][NextRouter]_vars

\* ------------------------------------ router, work queue and Reconcile
\* The dependencies of one cluster are created one by one, in any order; each
\* creation is notified to the router, a request that passes for the cluster's
\* key is queued, and the worker runs Reconcile for a queued key.  No
\* auto-import secret exists, the store answers, the target cluster accepts.
id == <<"c">>

InitLive ==
    /\ cd = NoCD
    /\ mc = NoMC
    /\ autoImportSecret = FALSE
    /\ hiveSecret = "absent"
    /\ importSecret = FALSE
    /\ works = 0
    /\ storeUp = TRUE
    /\ targetErr = ""
    /\ externalLeft = 0
    /\ InitController

Created(kind, name, namespace, mode) ==
    [kind |-> kind, type |-> "create", name |-> name, namespace |-> namespace,
     mode |-> mode, oldMode |-> mode, old |-> "d1", new |-> "d1"]

\* the creation is notified; the request is queued if it passes the filter
Notify(e) ==
    /\ event' = e
    /\ routed' = Route(e)
    /\ queue' = (queue \/ (routed'.pass /\ routed'.request.Name = id))
    /\ suppressed' = IF routed'.pass THEN suppressed ELSE suppressed \cup {e.kind}
    /\ UNCHANGED <<pc, localVars, ret, did, events, externalLeft, dirty, prevQuiet,
                   lastAttempt, autoImportSecret, storeUp, targetErr>>

LiveCreateClusterDeployment ==
    /\ ~cd.exists
    /\ \E bm \in BOOLEAN : cd' = [ReadyCD EXCEPT !.AgentBareMetal = bm]
    /\ Notify(Created("installRecord", id, id, ""))
    /\ UNCHANGED <<mc, hiveSecret, importSecret, works>>

LiveCreateManagedCluster ==
    /\ ~mc.exists
    /\ mc' = [NoMC EXCEPT !.exists = TRUE]
    /\ \E m \in DeployModes : Notify(Created("cluster", id, <<>>, m))
    /\ UNCHANGED <<cd, hiveSecret, importSecret, works>>

LiveCreateHiveSecret ==
    /\ hiveSecret = "absent"
    /\ hiveSecret' = "valid"
    /\ Notify(Created("credentialSecret", <<"c", "-", "k">>, id, ""))
    /\ UNCHANGED <<cd, mc, importSecret, works>>

LiveCreateImportSecret ==
    /\ ~importSecret
    /\ importSecret' = TRUE
    /\ \E m \in DeployModes : Notify(Created("importSecret", <<"c", "-", "m">>, id, m))
    /\ UNCHANGED <<cd, mc, hiveSecret, works>>

LiveCreateWork ==
    /\ works < 2
    /\ works' = works + 1
    /\ Notify(Created("work", IF works = 0 THEN <<"c", "-", "k">> ELSE <<"c", "-", "k", "c">>,
                      id, ""))
    /\ UNCHANGED <<cd, mc, hiveSecret, importSecret>>

\* the worker: a run starts only for a queued key
LiveReconcile ==
    /\ pc = "idle" => queue
    /\ Reconcile

NextLive ==
    \/ LiveCreateClusterDeployment
    \/ LiveCreateManagedCluster
    \/ LiveCreateHiveSecret
    \/ LiveCreateImportSecret
    \/ LiveCreateWork
    \/ LiveReconcile

\* every dependency is eventually created and the worker keeps working
SpecLive ==
    /\ InitLive
    /\ [][NextLive]_vars
    /\ WF_vars(LiveCreateClusterDeployment)
    /\ WF_vars(LiveCreateManagedCluster)
    /\ WF_vars(LiveCreateHiveSecret)
    /\ WF_vars(LiveCreateImportSecret)
    /\ WF_vars(LiveCreateWork)
    /\ WF_vars(LiveReconcile)

\* ====================================================================
\* Properties
\* ====================================================================
\* a step of the Reconcile run (external changes always spend externalLeft)
RunStep == externalLeft' = externalLeft

\* the step on which the run returns
Returns == RunStep /\ pc' = "idle"

Contains(seq, x) == \E i \in 1..Len(seq) : seq[i] = x

\* what the run has read satisfies every readiness precondition of the import
SnapshotReady ==
    /\ clusterDeployment.exists
    /\ ~clusterDeployment.deleting
    /\ managedCluster.exists
    /\ clusterDeployment.Installed
    /\ clusterDeployment.ClusterPoolRef # "unclaimed"
    /\ autoImportFound = "notfound"
    /\ importSecretFound = "found"
    /\ manifestWorks = 2

\* C1: a run applies the import manifests to the target cluster only if, in
\* what that run has read, the install record exists without deletion
\* marker, the cluster record exists, installed is true, a pooled install is
\* claimed, there is no auto-import secret, the payload secret exists and
\* exactly 2 klusterlet works exist.
C1_ReadinessSafety == "import" \in did => SnapshotReady

\* C1 witness: a run has applied the manifests while the store has moved on
\* since the run read it (a third work was created after the list).
C1_Witness == "import" \in did /\ manifestWorks = 2 /\ works = 3

\* C2: when the run reached the condition write and the write succeeded, the
\* cluster record carries True/ManagedClusterImported and the run returns no
\* error if the import returned no error; if the import returned error E it
\* carries False/ManagedClusterNotImported with E in the message and the run
\* returns an error.
C2_OutcomeCondition ==
    [][(pc = "updateStatus" /\ "statusWritten" \in did') =>
         IF err = ""
         THEN /\ mc'.cond.Status = "True"
              /\ mc'.cond.Reason = "ManagedClusterImported"
              /\ ret' = [done |-> TRUE, errs |-> <<>>]
         ELSE /\ mc'.cond.Status = "False"
              /\ mc'.cond.Reason = "ManagedClusterNotImported"
              /\ Contains(mc'.cond.Message, err)
              /\ ret'.done /\ ret'.errs # <<>>]_vars

\* C2 witness: a run whose import failed with E2 has written the condition.
C2_Witness ==
    /\ pc = "idle" /\ ret.done /\ "statusWritten" \in did
    /\ err = "E2" /\ mc.exists /\ mc.cond.Status = "False"

StoreReady ==
    /\ cd.exists /\ ~cd.deleting /\ mc.exists /\ cd.Installed
    /\ cd.ClusterPoolRef # "unclaimed" /\ hiveSecret # "absent"
    /\ importSecret /\ works = 2

\* C5 as stated: a run returns an error only when every readiness
\* precondition (the admin credential secret included) is satisfied.
C5_NotReadyNeverErrorAsStated ==
    [][(Returns /\ ret'.errs # <<>>) => StoreReady]_vars

\* C5 amended: with the store answering, a run that finds the install record,
\* the cluster record, the installed flag, the claim, the payload secret or
\* the two works missing returns success; a missing admin credential secret
\* returns a not-found error; and an error is returned only when a store call
\* failed or the run had passed gates 1-6.
C5_NotReadyNeverError ==
    [][RunStep =>
         /\ (pc = "idle" /\ storeUp /\ ~cd.exists) =>
                ret' = [done |-> TRUE, errs |-> <<>>]
         /\ (pc = "getManagedCluster" /\ storeUp /\
                (~mc.exists \/ ~clusterDeployment.Installed
                 \/ clusterDeployment.ClusterPoolRef = "unclaimed")) =>
                (pc' = "idle" /\ ret' = [done |-> TRUE, errs |-> <<>>])
         /\ (pc = "getImportSecret" /\ storeUp /\ ~importSecret) =>
                (pc' = "idle" /\ ret' = [done |-> TRUE, errs |-> <<>>])
         /\ (pc = "listManifestWorks" /\ storeUp /\ works # 2) =>
                (pc' = "idle" /\ ret' = [done |-> TRUE, errs |-> <<>>])
         /\ (pc = "getHiveSecret" /\ storeUp /\ hiveSecret = "absent") =>
                (pc' = "idle" /\ ret' = [done |-> TRUE, errs |-> <<ErrNotFound>>])
         /\ (pc' = "idle" /\ ret'.errs # <<>>) =>
                \/ ~storeUp
                \/ pc \in {"getHiveSecret", "updateStatus"}
                \/ pc = "patchManagedCluster" /\ ~mc.exists
                \/ pc = "removeImportFinalizer" /\ ~cd.exists]_vars

\* C5 witness: a run has returned not-found for the missing admin credential
\* secret although the payload secret and the works are missing too.
C5_Witness ==
    /\ pc = "idle" /\ ret.done /\ ret.errs = <<ErrNotFound>> /\ "getCredential" \in did
    /\ hiveSecret = "absent" /\ ~importSecret /\ works = 0 /\ storeUp

\* the run found the legacy import finalizer to be the only finalizer
Sole == clusterDeployment.Finalizers = <<ImportFinalizer>>

\* the cleanup removed the finalizer: the list is empty, one audit event
Removed ==
    /\ "patchFinalizers" \in did'
    /\ cd'.Finalizers = <<>>
    /\ events' = <<"ClusterDeploymentFinalizerRemoved">>

NothingPatched ==
    /\ cd' = cd /\ events' = events /\ "patchFinalizers" \notin did'
    /\ ret' = [done |-> TRUE, errs |-> <<>>]

\* C9 as stated: on a deleting install record the cleanup removes the legacy
\* finalizer iff it is the only finalizer the run found; otherwise it patches
\* nothing, emits no event and returns no error.
C9_FinalizerSafetyAsStated ==
    [][(pc = "removeImportFinalizer" /\ RunStep) =>
         /\ Sole <=> Removed
         /\ ~Sole => NothingPatched]_vars

\* C9 amended: the cleanup removes the legacy finalizer iff it is the only
\* finalizer the run found and the store accepts the patch; when the store
\* rejects the patch nothing changes, no event is emitted and the error is
\* returned; with another finalizer, or without the legacy one, it patches
\* nothing, emits no event and returns no error.
C9_FinalizerSafety ==
    [][(pc = "removeImportFinalizer" /\ RunStep) =>
         /\ Removed <=> (Sole /\ storeUp /\ cd.exists)
         /\ (Sole /\ ~(storeUp /\ cd.exists)) =>
                (cd' = cd /\ events' = events /\ ret'.done /\ ret'.errs # <<>>)
         /\ ~Sole => NothingPatched]_vars

\* C9 witness: the cleanup has emptied the finalizers of a deleting record.
C9_Witness ==
    /\ pc = "idle" /\ ret = [done |-> TRUE, errs |-> <<>>]
    /\ events = <<"ClusterDeploymentFinalizerRemoved">>
    /\ cd.exists /\ cd.deleting /\ cd.Finalizers = <<>>

\* C10 as stated: a run that finds the auto-import secret has done nothing:
\* no annotation patch, no contact with the target cluster, no condition
\* write; and it returns success.
C10_OverrideHandsOffAsStated ==
    autoImportFound = "found" =>
        (did = {} /\ events = <<>> /\ ret = [done |-> TRUE, errs |-> <<>>])

\* C10 amended: a run that finds the auto-import secret returns success
\* without fetching the admin credential, building a client, applying the
\* manifests or writing the condition; the provenance annotation may have
\* been patched before the lookup (step 5 precedes step 6).
C10_OverrideHandsOff ==
    autoImportFound = "found" =>
        /\ did \subseteq {"patchAnnotation"}
        /\ pc = "idle"
        /\ ret = [done |-> TRUE, errs |-> <<>>]

\* C10 witness: a run has stopped at the auto-import secret after patching
\* the annotation.
C10_Witness ==
    /\ autoImportFound = "found" /\ autoImportSecret
    /\ did = {"patchAnnotation"} /\ mc.via = CreatedViaHive

\* the work's name ends with one of the two hosted suffixes
EndsWithHostedSuffix(name) ==
    \/ HasSuffix(name, HostedKlusterletManifestworkSuffix)
    \/ HasSuffix(name, HostedManagedKubeconfigManifestworkSuffix)

\* C6: an update of a work whose name ends with a hosted suffix passes the
\* update filter iff the manifests of the old and the new object differ.
C6_WorkUpdateInterest ==
    (routed.delivered /\ event.kind = "work" /\ event.type = "update"
        /\ EndsWithHostedSuffix(event.name)) =>
        (routed.pass <=> event.old # event.new)

\* the name without the hosted suffix it ends with and without the '-' joining it
StripHostedSuffix(name) ==
    LET suffix == IF HasSuffix(name, HostedManagedKubeconfigManifestworkSuffix)
                  THEN HostedManagedKubeconfigManifestworkSuffix
                  ELSE HostedKlusterletManifestworkSuffix
    IN TrimSuffix(TrimSuffix(name, suffix), <<"-">>)

\* C7: a work event is routed to the work's namespace unless its name ends
\* with a hosted suffix, and then to the name without the suffix and its '-',
\* also when the name is the suffix alone or has no '-' before the suffix;
\* namespace and name of the request are both that key.
C7_HostedSuffixRecovery ==
    (routed.delivered /\ event.kind = "work") =>
        routed.request =
            IF EndsWithHostedSuffix(event.name)
            THEN [Namespace |-> StripHostedSuffix(event.name),
                  Name |-> StripHostedSuffix(event.name)]
            ELSE [Namespace |-> event.namespace, Name |-> event.namespace]

\* C8 as stated: every create and every delete of an import payload secret
\* passes the filter.
C8_SecretCreateDeleteAsStated ==
    (routed.delivered /\ event.kind = "importSecret" /\ event.type \in {"create", "delete"})
        => routed.pass

\* C8 amended: a create of an import payload secret passes the filter iff the
\* secret carries the hosted deploy-mode marker (in any letter case); deletes
\* and generic events are always suppressed; an update passes iff Data changed.
C8_SecretCreateDelete ==
    (routed.delivered /\ event.kind = "importSecret") =>
        (routed.pass <=>
            \/ event.type = "create" /\ event.mode \in {"Hosted", "hosted", "HOSTED"}
            \/ event.type = "update" /\ event.old # event.new)

\* C8 witness: the create of an import secret without the marker was dropped.
C8_Witness ==
    /\ routed.delivered
    /\ event.kind = "importSecret" /\ event.type = "create" /\ event.mode = ""
    /\ ~routed.pass /\ routed.request = Request(event.namespace)

\* the cluster record carries the import-succeeded condition
Succeeded == mc.exists /\ mc.cond = SucceededCondition

OutcomeOf(attempt) ==
    IF attempt.err = "" THEN SucceededCondition ELSE FailedCondition(attempt.err)

\* C11 as stated: once some run has attempted the import, whenever no run is
\* in progress the import condition of the cluster record equals the outcome
\* (succeeded, or failed with the error text) of the most recent attempt.
C11_LastAttemptedAsStated ==
    (lastAttempt.attempted /\ pc = "idle") => mc.cond = OutcomeOf(lastAttempt)

\* C11 amended: a run that attempted the import and whose condition write is
\* accepted by the store leaves the condition equal to the outcome of that
\* attempt; when the write is rejected the cluster record is unchanged (the
\* condition is the one of an earlier write) and the run returns an error, so
\* its key is queued again; no other step of Reconcile changes the condition.
C11_LastAttempted ==
    [][RunStep =>
         /\ (pc = "updateStatus" /\ storeUp /\ mc.exists) =>
                (lastAttempt.attempted /\ mc'.cond = OutcomeOf(lastAttempt))
         /\ (pc = "updateStatus" /\ ~(storeUp /\ mc.exists)) =>
                (mc' = mc /\ ret'.done /\ ret'.errs # <<>> /\ queue')
         /\ pc # "updateStatus" => mc'.cond = mc.cond]_vars

\* C11 witness: the latest attempt failed with E1 and its condition write was
\* rejected; the cluster record still carries the condition of the attempt
\* before it, and the key is queued for a retry.
C11_Witness ==
    /\ pc = "idle" /\ lastAttempt = [attempted |-> TRUE, err |-> "E1"]
    /\ mc.exists /\ mc.cond = SucceededCondition
    /\ ret.errs = <<"E1", ErrStore>> /\ queue

\* C12: in a run that reaches the import the condition write is attempted
\* whether or not the import failed, and the run returns exactly the failures
\* of that run: the import error when only the import fails, the write error
\* when only the write fails, both when both fail, none when neither fails.
C12_ErrorAggregation ==
    [][(pc = "updateStatus" /\ RunStep) =>
         LET applyFailed == err # ""
             writeFailed == ~(storeUp /\ mc.exists)
         IN /\ "import" \in did /\ "updateStatus" \in did'
            /\ pc' = "idle" /\ ret'.done
            /\ applyFailed <=> Contains(ret'.errs, err) /\ err # ""
            /\ writeFailed <=> (Contains(ret'.errs, ErrStore)
                                  \/ Contains(ret'.errs, ErrNotFound))
            /\ Len(ret'.errs) = (IF applyFailed THEN 1 ELSE 0)
                                 + (IF writeFailed THEN 1 ELSE 0)]_vars

\* C12 witness: a run whose import failed with E2 and whose condition write
\* was rejected has returned both errors.
C12_Witness ==
    /\ pc = "idle" /\ ret.done /\ {"import", "updateStatus"} \subseteq did
    /\ "statusWritten" \notin did /\ ret.errs = <<"E2", ErrStore>>

\* the event is an update of one of the two per-cluster secrets
SecretUpdate ==
    /\ routed.delivered
    /\ event.kind \in {"importSecret", "autoImportSecret"}
    /\ event.type = "update"

\* C13: for the import secret and for the auto-import secret alike, an update
\* whose new Data equals its old Data is filtered out and no key is queued; an
\* update whose Data differs passes and is routed to the key of the secret's
\* cluster, its namespace.
C13_SecretUpdateSuppression ==
    SecretUpdate =>
        /\ event.old = event.new => (~routed.pass /\ ~queue)
        /\ event.old # event.new =>
              (routed.pass /\ queue /\ routed.request = Request(event.namespace))

\* C13 witness: an update of an auto-import secret that left Data as it was
\* has been dropped.
C13_Witness ==
    /\ SecretUpdate /\ event.kind = "autoImportSecret"
    /\ event.old = "d2" /\ event.new = "d2" /\ ~routed.pass /\ ~queue

\* C14: every create of an auto-import secret passes the filter, whatever the
\* secret carries; every delete and every generic event on it is suppressed.
C14_AutoImportSecretEvents ==
    (routed.delivered /\ event.kind = "autoImportSecret") =>
        /\ event.type = "create" => routed.pass
        /\ event.type \in {"delete", "generic"} => ~routed.pass

\* C14 witness: the create of an auto-import secret without the hosted marker
\* has passed and is routed to its namespace.
C14_Witness ==
    /\ routed.delivered /\ event.kind = "autoImportSecret" /\ event.type = "create"
    /\ event.mode = "Default" /\ routed.pass /\ routed.request = Request(event.namespace)

\* the deploy-mode annotation is the hosted marker, in any letter case
Hosted(mode) == mode \in {"Hosted", "hosted", "HOSTED"}

\* C15: an event on a cluster record passes the filter iff the record carries
\* the hosted marker (letter case ignored), for generic, create, delete and
\* update alike; for an update the new object alone decides; the request
\* carries the record's own name.
C15_ClusterRecordEvents ==
    (routed.delivered /\ event.kind = "cluster") =>
        /\ routed.pass <=> Hosted(event.mode)
        /\ queue <=> Hosted(event.mode)
        /\ routed.request.Name = event.name

\* C15 witness: an update that took the hosted marker off a cluster record
\* has been dropped.
C15_Witness ==
    /\ routed.delivered /\ event.kind = "cluster" /\ event.type = "update"
    /\ event.oldMode = "HOSTED" /\ event.mode = "Default" /\ ~routed.pass

\* C16: no step of a run, whatever the run's outcome, creates or deletes the
\* cluster record, the install record, a secret or a work; on the cluster
\* record a run changes nothing but the provenance annotation and the import
\* condition, on the install record nothing but the finalizers.
C16_Frame ==
    [][RunStep =>
         /\ mc'.exists = mc.exists
         /\ cd'.exists = cd.exists
         /\ UNCHANGED <<autoImportSecret, hiveSecret, importSecret, works>>
         /\ mc' = [mc EXCEPT !.via = mc'.via, !.cond = mc'.cond]
         /\ cd' = [cd EXCEPT !.Finalizers = cd'.Finalizers]]_vars

\* C16 witness: a run has patched the annotation and written the condition of
\* a cluster record whose other fields another actor had changed.
C16_Witness ==
    /\ pc = "idle" /\ {"patchAnnotation", "statusWritten"} \subseteq did
    /\ mc.exists /\ mc.others = "r1" /\ mc.via # NoAnnotation /\ mc.cond # NoCondition

\* the step on which the annotation step of a run that passed gates 1-4 ends:
\* either the run saw nothing to patch, or it issues the patch
AnnotationStepEnds ==
    /\ RunStep
    /\ \/ pc = "getManagedCluster" /\ pc' = "getAutoImportSecret"
       \/ pc = "patchManagedCluster"

\* the value the install record calls for
Wanted == IF clusterDeployment.AgentBareMetal THEN CreatedViaAI ELSE CreatedViaHive

\* C17 as stated: if the cluster record carries the discovery value the
\* annotation is left alone and nothing is patched; otherwise after the step
\* the annotation is the bare-metal-agent value for an agent-bare-metal
\* install record and the host-install value for any other, and a patch is
\* issued and an event emitted only when the value changed.
C17_AnnotationConvergenceAsStated ==
    [][AnnotationStepEnds =>
         IF managedCluster'.via = CreatedViaDiscovery
         THEN mc' = mc /\ "patchAnnotation" \notin did' /\ events' = <<>>
         ELSE /\ mc'.via = Wanted
              /\ "patchAnnotation" \in did' => mc'.via # mc.via
              /\ events' # <<>> => mc'.via # mc.via]_vars

\* C17 amended: the step decides on the cluster record the run read.  If
\* that copy carries the discovery value, or already the value the install
\* record calls for, nothing is patched, the record is left as it is and no
\* event is emitted.  Otherwise one patch is issued: when the store accepts
\* it the annotation is the value called for and one event is emitted; when
\* the store rejects it the record is unchanged, no event is emitted and the
\* run returns the error.
C17_AnnotationConvergence ==
    [][AnnotationStepEnds =>
         LET seen == managedCluster'.via
             issued == pc = "patchManagedCluster"
             accepted == storeUp /\ mc.exists
         IN /\ issued <=> (seen # CreatedViaDiscovery /\ seen # Wanted)
            /\ issued <=> "patchAnnotation" \in did'
            /\ ~issued => (mc' = mc /\ events' = <<>>)
            /\ (issued /\ accepted) =>
                  /\ mc' = [mc EXCEPT !.via = Wanted]
                  /\ events' = <<"ManagedClusterLabelsUpdated">>
                  /\ pc' = "getAutoImportSecret"
            /\ (issued /\ ~accepted) =>
                  /\ mc' = mc /\ events' = <<>>
                  /\ pc' = "idle" /\ ret'.errs # <<>>]_vars

\* C17 witness: a run has replaced the host-install value by the
\* bare-metal-agent value on the cluster record of an agent-bare-metal
\* install record.
C17_Witness ==
    /\ pc = "getAutoImportSecret" /\ "patchAnnotation" \in did
    /\ clusterDeployment.AgentBareMetal /\ managedCluster.via = NoAnnotation
    /\ mc.via = CreatedViaAI /\ events = <<"ManagedClusterLabelsUpdated">>

\* gates 1-6 passed in what the run has read and done
LocalGatesPassed ==
    /\ clusterDeployment.exists /\ ~clusterDeployment.deleting
    /\ managedCluster.exists
    /\ clusterDeployment.Installed
    /\ clusterDeployment.ClusterPoolRef # "unclaimed"
    /\ "patchAnnotation" \in did => events = <<"ManagedClusterLabelsUpdated">>
    /\ autoImportFound = "notfound"

\* C18: a run fetches the admin credential secret or builds a client for the
\* target cluster only after gates 1-6 all passed in that run: install
\* record present and not deleting, cluster record present, installed,
\* claimed if pooled, annotation step done without error, no auto-import
\* secret.
C18_LocalGatesFirst ==
    ("getCredential" \in did \/ "newClient" \in did \/ "import" \in did)
        => LocalGatesPassed

\* C18 witness: a run has fetched the credential and built the client after
\* patching the annotation, while the store already holds an auto-import
\* secret created after the run looked for one.
C18_Witness ==
    /\ {"patchAnnotation", "getCredential", "newClient"} \subseteq did
    /\ autoImportFound = "notfound" /\ autoImportSecret

\* C19: whatever an external actor adds to the finalizers of the install
\* record, also between the run's read of the record and its finalizer patch,
\* no step of a run removes a finalizer other than the legacy import
\* finalizer.
C19_FinalizerConcurrentWriter ==
    [][RunStep =>
         \A i \in 1..Len(cd.Finalizers) :
             cd.Finalizers[i] # ImportFinalizer => Contains(cd'.Finalizers, cd.Finalizers[i])]_vars

\* C20: whenever the cluster record carries the discovery value, also when
\* it was written between the run's read of the record and its annotation
\* patch, no step of a run replaces it.
C20_AnnotationConcurrentWriter ==
    [][RunStep =>
         ((mc.exists /\ mc.via = CreatedViaDiscovery) => mc'.via = CreatedViaDiscovery)]_vars

====
